---- MODULE Spec2Model ----
(***************************************************************************)
(* Engine-on ETL (app/etl_engineon.py) and its job runner (app/main.py).   *)
(*                                                                         *)
(* Numbers.  Every float of the program is an exact rational               *)
(* [num, den]; den = 0 is NaN.  Voltages are volts (24.999 = 24999/1000),  *)
(* time differences are minutes (seconds/60).  Every modelled coordinate   *)
(* lies on one meridian and latitude is measured in metres of arc, so      *)
(* that haversine (dlon = 0: 2R*arcsin(sin(|dlat|/2)) = R*|dlat|) is the   *)
(* absolute difference of the two latitudes.                               *)
(***************************************************************************)
EXTENDS Integers, Sequences, FiniteSets, TLC

\* ------------------------------------------------------------------
\* Floats
\* ------------------------------------------------------------------
Rat(n, d) == [num |-> n, den |-> d]

NaN == Rat(0, 0)

IsNaN(x) == x.den = 0

Abs(n) == IF n < 0 THEN -n ELSE n

RECURSIVE Gcd(_, _)
Gcd(a, b) == IF b = 0 THEN a ELSE Gcd(b, a % b)

Norm(x) ==
    IF x.den = 0 THEN NaN
    ELSE LET g == Gcd(Abs(x.num), Abs(x.den))
             s == IF x.den < 0 THEN -1 ELSE 1
         IN Rat(s * (x.num \div g), s * (x.den \div g))

Int2F(n) == Rat(n, 1)

\* IEEE comparisons: any comparison with NaN is false.
LeF(a, b) == ~IsNaN(a) /\ ~IsNaN(b) /\ a.num * b.den <= b.num * a.den
LtF(a, b) == ~IsNaN(a) /\ ~IsNaN(b) /\ a.num * b.den < b.num * a.den
GtF(a, b) == LtF(b, a)
GeF(a, b) == LeF(b, a)

AddF(a, b) ==
    IF IsNaN(a) \/ IsNaN(b) THEN NaN
    ELSE Norm(Rat(a.num * b.den + b.num * a.den, a.den * b.den))

SubF(a, b) ==
    IF IsNaN(a) \/ IsNaN(b) THEN NaN
    ELSE Norm(Rat(a.num * b.den - b.num * a.den, a.den * b.den))

AbsF(a) == IF IsNaN(a) THEN NaN ELSE Rat(Abs(a.num), a.den)

DivF(a, k) == IF IsNaN(a) THEN NaN ELSE Norm(Rat(a.num, a.den * k))

MulF(a, b) ==
    IF IsNaN(a) \/ IsNaN(b) THEN NaN ELSE Norm(Rat(a.num * b.num, a.den * b.den))

\* Series.fillna(0)
fillna0(a) == IF IsNaN(a) THEN Int2F(0) ELSE a

\* Series.clip(lower=0): NaN stays NaN
clip_lower0(a) == IF LtF(a, Int2F(0)) THEN Int2F(0) ELSE a

\* Series.round(2): to the nearest hundredth, a half to the even one
round2(a) ==
    IF IsNaN(a) THEN NaN
    ELSE LET q == (100 * a.num) \div a.den
             r == (100 * a.num) % a.den
         IN IF 2 * r < a.den THEN Norm(Rat(q, 100))
            ELSE IF 2 * r > a.den THEN Norm(Rat(q + 1, 100))
            ELSE IF q % 2 = 0 THEN Norm(Rat(q, 100))
            ELSE Norm(Rat(q + 1, 100))

\* ------------------------------------------------------------------
\* Raw field values of a document
\* ------------------------------------------------------------------
\* kind "num": a number or numeric text; "text": any other text (body,
\* pad = surrounded by white space); "nan": the field is absent from the
\* document (pandas fills NaN); "null": the field is None.
SENTINEL == "firmware-not-supported"

NumTok(n, d) == [kind |-> "num", val |-> Rat(n, d), body |-> "", pad |-> FALSE]
TextTok(s, p) == [kind |-> "text", val |-> NaN, body |-> s, pad |-> p]
AbsentTok == [kind |-> "nan", val |-> NaN, body |-> "", pad |-> FALSE]
NullTok == [kind |-> "null", val |-> NaN, body |-> "", pad |-> FALSE]

\* str(v).strip()
StrStrip(tok) == [tok EXCEPT !.pad = FALSE]

\* pd.to_numeric(..., errors="coerce")
to_numeric(tok) == IF tok.kind = "num" THEN tok.val ELSE NaN

\* float(v): succeeds on a number and on NaN, raises on None and on text
FloatParses(tok) == tok.kind \in {"num", "nan"}

classify_voltage_type(v) ==
    IF StrStrip(v).kind = "text" /\ StrStrip(v).body = SENTINEL THEN "v1"
    ELSE IF FloatParses(v) THEN "v2"
    ELSE "None"

PARKED == "Parked"

EngineOnVoltage == 25

classify_engine_state_strict(v, status) ==
    IF status # PARKED THEN "Other"
    ELSE IF IsNaN(v) THEN "Unknown"
    ELSE IF GtF(v, Int2F(EngineOnVoltage)) THEN "Parking - Engine On"
    ELSE "Parking - Engine Off"

classify_engine_state(v, status) ==
    IF status # PARKED THEN "Other"
    ELSE IF IsNaN(v) THEN "Unknown"
    ELSE IF GeF(v, Int2F(EngineOnVoltage)) THEN "Parking - Engine On"
    ELSE "Parking - Engine Off"

haversine(lat1, lon1, lat2, lon2) ==
    IF IsNaN(lat1) \/ IsNaN(lon1) \/ IsNaN(lat2) \/ IsNaN(lon2) THEN NaN
    ELSE AbsF(SubF(lat2, lat1))


\* ------------------------------------------------------------------
\* One vehicle of one date (_process_one_date, the body of the loop)
\* ------------------------------------------------------------------
\* A reading (a driving_log document of the date):
\*   [plate, time, Voltage, status, place, coord]
\* plate: the vehicle, 0 when the field is null; time, Voltage: raw
\* values; coord: the coordinate text cut at its first comma, a sequence
\* of one or two raw values.

SeqRange(s) == {s[i] : i \in DOMAIN s}

SumF_first(s) == IF s = <<>> THEN Int2F(0) ELSE Head(s)

RECURSIVE SumF(_)
SumF(s) == IF s = <<>> THEN Int2F(0) ELSE AddF(Head(s), SumF(Tail(s)))

\* Series.mean(): NaN entries are skipped; NaN when nothing is left.
MeanF(s) ==
    LET kept == SelectSeq(s, LAMBDA x : ~IsNaN(x))
    IN IF kept = <<>> THEN NaN ELSE DivF(SumF(kept), Len(kept))

version_type_of_v2_first(dfp) ==
    LET vtype == [i \in DOMAIN dfp |-> classify_voltage_type(dfp[i].Voltage)]
    IN IF \E i \in DOMAIN dfp : vtype[i] = "v2" THEN "v2"
       ELSE IF \E i \in DOMAIN dfp : vtype[i] = "v1" THEN "v1"
       ELSE "None"

version_type_of(dfp) ==
    LET vtype == [i \in DOMAIN dfp |-> classify_voltage_type(dfp[i].Voltage)]
    IN IF \E i \in DOMAIN dfp : vtype[i] = "v1" THEN "v1"
       ELSE IF \E i \in DOMAIN dfp : vtype[i] = "v2" THEN "v2"
       ELSE "None"

\* pd.to_datetime(date + " " + time, format=..., errors="coerce")
to_datetime(tok) == IF tok.kind = "num" THEN tok.val ELSE NaN

RECURSIVE InsertByDatetime(_, _)
InsertByDatetime(r, s) ==
    IF s = <<>> THEN <<r>>
    ELSE IF LtF(r.datetime, Head(s).datetime) THEN <<r>> \o s
    ELSE <<Head(s)>> \o InsertByDatetime(r, Tail(s))

\* sort_values("datetime"): rows with equal datetime keep their order
RECURSIVE sort_values(_)
sort_values(s) ==
    IF s = <<>> THEN <<>>
    ELSE InsertByDatetime(s[Len(s)], sort_values(SubSeq(s, 1, Len(s) - 1)))

\* dfp after lines 130-141: datetime parsed, NaT rows dropped, sorted,
\* engine_state computed from the numeric voltage.
with_engine_state(dfp) ==
    LET dated == [i \in DOMAIN dfp |->
                    [plate |-> dfp[i].plate, Voltage |-> dfp[i].Voltage,
                     status |-> dfp[i].status, place |-> dfp[i].place,
                     coord |-> dfp[i].coord,
                     datetime |-> to_datetime(dfp[i].time),
                     engine_state |-> ""]]
        sorted == sort_values(SelectSeq(dated, LAMBDA r : ~IsNaN(r.datetime)))
    IN [i \in DOMAIN sorted |->
          [sorted[i] EXCEPT !.engine_state =
              classify_engine_state(to_numeric(sorted[i].Voltage), sorted[i].status)]]

\* (datetime - prev_dt).dt.total_seconds() / 60; row 1 has no previous row
time_diff(rows, i) ==
    IF i = 1 THEN NaN
    ELSE DivF(SubF(rows[i].datetime, rows[i - 1].datetime), 60)

MaxGapMinutes == 5

ENGINE_ON == "Parking - Engine On"

qualifies_no_prev_state(rows, i) ==
    /\ i > 1
    /\ rows[i].engine_state = ENGINE_ON
    /\ rows[i].place = rows[i - 1].place
    /\ GtF(time_diff(rows, i), Int2F(0))
    /\ LeF(time_diff(rows, i), Int2F(MaxGapMinutes))

\* the row filter of lines 148-154 (the shifted columns of row 1 are NaN)
qualifies(rows, i) ==
    /\ i > 1
    /\ rows[i].engine_state = ENGINE_ON
    /\ rows[i - 1].engine_state = ENGINE_ON
    /\ rows[i].place = rows[i - 1].place
    /\ GtF(time_diff(rows, i), Int2F(0))
    /\ LeF(time_diff(rows, i), Int2F(MaxGapMinutes))

RECURSIVE qualifying_rows(_, _)
qualifying_rows(rows, i) ==
    IF i > Len(rows) THEN <<>>
    ELSE (IF qualifies(rows, i) THEN <<i>> ELSE <<>>) \o qualifying_rows(rows, i + 1)

dfv_all(rows) ==
    LET idx == SelectSeq([i \in DOMAIN rows |-> i],
                         LAMBDA i : rows[i].engine_state = ENGINE_ON)
    IN [k \in DOMAIN idx |->
          [row |-> idx[k], datetime |-> rows[idx[k]].datetime,
           time_diff |-> time_diff(rows, idx[k]), coord |-> rows[idx[k]].coord]]

\* dfv: the qualifying rows, in time order
dfv_of(rows) ==
    LET idx == qualifying_rows(rows, 1)
    IN [k \in DOMAIN idx |->
          [row |-> idx[k], datetime |-> rows[idx[k]].datetime,
           time_diff |-> time_diff(rows, idx[k]), coord |-> rows[idx[k]].coord]]

\* _split_latlng: str.split(",", n=1, expand=True) has as many columns as
\* the longest split; arr[:, 1] raises IndexError when there is only one.
split_raises(dfv) == \A k \in DOMAIN dfv : Len(dfv[k].coord) < 2

split_lat(dfv) == [k \in DOMAIN dfv |-> to_numeric(dfv[k].coord[1])]

split_lng(dfv) ==
    [k \in DOMAIN dfv |->
        IF Len(dfv[k].coord) >= 2 THEN to_numeric(dfv[k].coord[2]) ELSE NaN]

\* dist: distance from the previous qualifying row (NaN for the first)
dist_of(dfv, k) ==
    IF k = 1 THEN NaN
    ELSE haversine(split_lat(dfv)[k - 1], split_lng(dfv)[k - 1],
                   split_lat(dfv)[k], split_lng(dfv)[k])

is_break_inclusive(dfv, k, max_distance) ==
    GeF(dist_of(dfv, k), Int2F(max_distance)) \/ IsNaN(dist_of(dfv, k))

is_break_on_time_gap(dfv, k, max_distance) ==
    \/ GtF(dist_of(dfv, k), Int2F(max_distance)) \/ IsNaN(dist_of(dfv, k))
    \/ GtF(SubF(dfv[k].datetime, dfv[k - 1].datetime), Int2F(60 * MaxGapMinutes))

is_break(dfv, k, max_distance) ==
    GtF(dist_of(dfv, k), Int2F(max_distance)) \/ IsNaN(dist_of(dfv, k))

\* ((dist > max_distance) | dist.isna()).cumsum()
event_id_of(dfv, k, max_distance) ==
    Cardinality({j \in 1..k : is_break(dfv, j, max_distance)})

\* groupby("event_id").agg(...).reset_index(): one row per event id, in
\* ascending id order
events_of(dfv, max_distance) ==
    LET n == IF dfv = <<>> THEN 0 ELSE event_id_of(dfv, Len(dfv), max_distance)
        members(e) == SelectSeq([k \in DOMAIN dfv |-> k],
                         LAMBDA k : event_id_of(dfv, k, max_distance) = e)
    IN [e \in 1..n |->
          [event_id |-> e,
           total_engine_on_min |->
               SumF([m \in DOMAIN members(e) |-> dfv[members(e)[m]].time_diff]),
           lat |-> MeanF([m \in DOMAIN members(e) |-> split_lat(dfv)[members(e)[m]]]),
           lng |-> MeanF([m \in DOMAIN members(e) |-> split_lng(dfv)[members(e)[m]]])]]

\* plants after lines 81-87: rows without numeric Latitude/Longitude dropped
plants_numeric(plants) ==
    LET p == [j \in DOMAIN plants |->
                [plant_code |-> plants[j].plant_code,
                 Latitude |-> to_numeric(plants[j].Latitude),
                 Longitude |-> to_numeric(plants[j].Longitude)]]
    IN SelectSeq(p, LAMBDA r : ~IsNaN(r.Latitude) /\ ~IsNaN(r.Longitude))

\* one row of dist_matrix
dist_row(ev, P) ==
    [j \in DOMAIN P |-> haversine(ev.lat, ev.lng, P[j].Latitude, P[j].Longitude)]

\* np.nanargmin raises ValueError on an all-NaN (or empty) row
nanargmin_raises(D) == \A j \in DOMAIN D : IsNaN(D[j])

nanargmin_last(D) ==
    CHOOSE j \in DOMAIN D :
        /\ ~IsNaN(D[j])
        /\ \A k \in DOMAIN D : ~IsNaN(D[k]) => LeF(D[j], D[k])
        /\ \A k \in DOMAIN D : (k > j /\ ~IsNaN(D[k])) => LtF(D[j], D[k])

\* np.nanargmin: the first index of the minimum, NaN entries ignored
nanargmin(D) ==
    CHOOSE j \in DOMAIN D :
        /\ ~IsNaN(D[j])
        /\ \A k \in DOMAIN D : ~IsNaN(D[k]) => LeF(D[j], D[k])
        /\ \A k \in DOMAIN D : (k < j /\ ~IsNaN(D[k])) => LtF(D[j], D[k])

NONE == "None"

nearest_plant_of_strict(ev, P, max_distance) ==
    LET D == dist_row(ev, P)
        idx == nanargmin(D)
    IN IF LtF(D[idx], Int2F(max_distance)) THEN P[idx].plant_code ELSE NONE

\* np.where(min_dist <= max_distance, p_code[idx], None)
nearest_plant_of(ev, P, max_distance) ==
    LET D == dist_row(ev, P)
        idx == nanargmin(D)
    IN IF LeF(D[idx], Int2F(max_distance)) THEN P[idx].plant_code ELSE NONE

\* A value computed once and then named: the only element of a singleton.
TheOnly(S) == CHOOSE x \in S : TRUE

NoDocs == [raised |-> FALSE, err |-> "", raw_ops |-> {}, sum_ops |-> {}]

Raises(e) == [raised |-> TRUE, err |-> e, raw_ops |-> {}, sum_ops |-> {}]

\* valid["total_engine_on_min"].sum(): the events with a nearest plant
total_min_of(events, nearest) ==
    TheOnly({SumF([m \in DOMAIN valid |-> valid[m].total_engine_on_min])
             : valid \in {SelectSeq(events, LAMBDA ev : nearest[ev.event_id] # NONE)}})

plate_docs_always_summary(plate, target_date, max_distance, P, version_type, events) ==
    IF \E e \in DOMAIN events : nanargmin_raises(dist_row(events[e], P))
    THEN Raises("ValueError")
    ELSE TheOnly({
        [raised |-> FALSE, err |-> "",
         raw_ops |->
             {[_id |-> <<plate, target_date, e - 1>>,
               plate |-> plate, date |-> target_date,
               event_id |-> events[e].event_id,
               total_engine_on_min |-> events[e].total_engine_on_min,
               lat |-> events[e].lat, lng |-> events[e].lng,
               nearest_plant |-> nearest[e]] : e \in DOMAIN events},
         sum_ops |->
             IF FALSE THEN {}
             ELSE {[_id |-> <<plate, target_date>>,
                    plate |-> plate, date |-> target_date,
                    total_engine_on_min |->
                        total_min_of(events, nearest),
                    total_engine_on_hr |->
                        DivF(total_min_of(events, nearest), 60),
                    version_type |-> version_type]}]
        : nearest \in {[e \in DOMAIN events |->
                          nearest_plant_of(events[e], P, max_distance)]} })

\* lines 172-216 for one vehicle: nearest plants, raw documents (the row
\* index i of events.iterrows() counts from 0) and the summary document
plate_docs(plate, target_date, max_distance, P, version_type, events) ==
    IF \E e \in DOMAIN events : nanargmin_raises(dist_row(events[e], P))
    THEN Raises("ValueError")
    ELSE TheOnly({
        [raised |-> FALSE, err |-> "",
         raw_ops |->
             {[_id |-> <<plate, target_date, e - 1>>,
               plate |-> plate, date |-> target_date,
               event_id |-> events[e].event_id,
               total_engine_on_min |-> events[e].total_engine_on_min,
               lat |-> events[e].lat, lng |-> events[e].lng,
               nearest_plant |-> nearest[e]] : e \in DOMAIN events},
         sum_ops |->
             IF \A e \in DOMAIN events : nearest[e] = NONE THEN {}
             ELSE {[_id |-> <<plate, target_date>>,
                    plate |-> plate, date |-> target_date,
                    total_engine_on_min |->
                        total_min_of(events, nearest),
                    total_engine_on_hr |->
                        DivF(total_min_of(events, nearest), 60),
                    version_type |-> version_type]}]
        : nearest \in {[e \in DOMAIN events |->
                          nearest_plant_of(events[e], P, max_distance)]} })

\* What the loop body leaves for one vehicle (lines 124-216): the raw and
\* summary ReplaceOne documents, or the exception it raises.
plate_result(plate, dfp, target_date, max_distance, P) ==
    TheOnly({
        IF version_type = NONE THEN NoDocs
        ELSE IF dfv = <<>> THEN NoDocs
        ELSE IF split_raises(dfv) THEN Raises("IndexError")
        ELSE TheOnly({plate_docs(plate, target_date, max_distance, P,
                                 version_type, events)
                      : events \in {events_of(dfv, max_distance)}})
        : version_type \in {version_type_of(dfp)},
          dfv \in {dfv_of(with_engine_state(dfp))} })

UnionOf(S) == UNION S

\* lines 118-124: rows without plate or time dropped, grouped by plate
df_day_of(logs) ==
    SelectSeq(logs, LAMBDA r : r.plate # 0 /\ r.time.kind \notin {"nan", "null"})

\* _process_one_date up to the bulk writes (lines 99-216): the outcome it
\* would return and the operations it has collected, or the exception of
\* the first vehicle (in groupby order) that raises.
date_result(target_date, logs, max_distance, P) ==
    IF logs = <<>>
    THEN [raised |-> FALSE, err |-> "", outcome |-> "no data",
          raw_ops |-> {}, sum_ops |-> {}]
    ELSE IF df_day_of(logs) = <<>>
    THEN [raised |-> FALSE, err |-> "", outcome |-> "empty",
          raw_ops |-> {}, sum_ops |-> {}]
    ELSE TheOnly({
        IF \E p \in DOMAIN res : res[p].raised
        THEN [raised |-> TRUE,
              err |-> res[CHOOSE p \in DOMAIN res :
                            /\ res[p].raised
                            /\ \A q \in DOMAIN res : res[q].raised => p <= q].err,
              outcome |-> "", raw_ops |-> {}, sum_ops |-> {}]
        ELSE [raised |-> FALSE, err |-> "", outcome |-> "counts",
              raw_ops |-> UnionOf({res[p].raw_ops : p \in DOMAIN res}),
              sum_ops |-> UnionOf({res[p].sum_ops : p \in DOMAIN res})]
        : res \in {[p \in {logs[i].plate : i \in DOMAIN logs} \ {0} |->
                      plate_result(p, SelectSeq(df_day_of(logs),
                                                LAMBDA r : r.plate = p),
                                   target_date, max_distance, P)]} })

bulk_write_purge(col, ops) ==
    LET ids == {o._id : o \in ops}
        kept == {k \in DOMAIN col : \A o \in ops : k[2] # o._id[2]}
    IN [k \in kept \cup ids |->
          IF k \in ids THEN CHOOSE o \in ops : o._id = k ELSE col[k]]

bulk_write_inc(col, ops) ==
    [k \in DOMAIN col \cup {o._id : o \in ops} |->
        IF \E o \in ops : o._id = k
        THEN IF k \in DOMAIN col
             THEN [(CHOOSE o \in ops : o._id = k) EXCEPT !.total_engine_on_min =
                      AddF(col[k].total_engine_on_min, @)]
             ELSE CHOOSE o \in ops : o._id = k
        ELSE col[k]]

\* bulk_write of ReplaceOne(..., upsert=True): every document replaces the
\* stored document of its _id, or is inserted
bulk_write(col, ops) ==
    [k \in DOMAIN col \cup {o._id : o \in ops} |->
        IF \E o \in ops : o._id = k THEN CHOOSE o \in ops : o._id = k ELSE col[k]]

\* ------------------------------------------------------------------
\* The job: POST /engineon/run, run_etl_job, the date-range scheduler
\* ------------------------------------------------------------------
\* Bounds of the model
NumDates == 2
MaxWorkers == 2
MaxJobs == 2

Dates == 1..NumDates

\* date_list (lines 90-95): start_date, start_date + 1 day, ..., end_date
date_list_of(start_date, end_date) ==
    [i \in 1..(end_date - start_date + 1) |-> start_date + (i - 1)]

VARIABLES
    driving_log,       \* terminus.driving_log: date -> documents of the date
    plants,            \* atms.plants: the documents, in find() order
    raw_engineon,      \* analytics.raw_engineon: _id -> document
    summary_engineon,  \* analytics.summary_engineon: _id -> document
    etl_jobs,          \* analytics.etl_jobs: the job records, by job number
    payload,           \* the request of the job that is running
    pc,                \* where run_etl_job of the running job stands
    p_plants,          \* p_lat, p_lng, p_code of the running job
    date_list,         \* date_list of the running job
    fut,               \* date -> state of _process_one_date(date)
    ops,               \* date -> what _process_one_date(date) has built
    consumed,          \* dates whose future as_completed has handed out
    printed,           \* the per-date results printed by the running job
    exc,               \* the exception on its way to run_etl_job, or ""
    starts,            \* date -> calls of _process_one_date(date) in this job
    worker,            \* date -> the thread that is running it, or 0
    at_start,          \* the two stores as they were when the job started
    replayed,          \* date -> max_distance of the last run of the date
                       \* that returned with both stores written, or 0
    seg,               \* one vehicle of one date, stage by stage (below)
    fuel               \* one row of the trip/cost join in calculate_fuel (below)

vars == <<driving_log, plants, raw_engineon, summary_engineon, etl_jobs,
          payload, pc, p_plants, date_list, fut, ops, consumed, printed,
          exc, starts, worker, at_start, replayed, seg, fuel>>

inputs == <<driving_log, plants, seg, fuel>>

NoPayload ==
    [start_date |-> 1, end_date |-> 0, max_distance |-> 0, save_raw |-> TRUE,
     save_summary |-> TRUE, parallel_dates |-> FALSE, max_workers |-> 1]

NoOps ==
    [raised |-> FALSE, err |-> "", outcome |-> "", raw_ops |-> {}, sum_ops |-> {}]

InDateList(d) == \E i \in DOMAIN date_list : date_list[i] = d

Active == {d \in Dates : fut[d] \in {"built", "rawdone"}}

Finished(d) == fut[d] \in {"done", "raised"}

\* the threads that can run _process_one_date: the max_workers threads of
\* the pool (line 226), or the one thread of the for loop (line 230)
Workers == IF payload.parallel_dates THEN 1..payload.max_workers ELSE {1}

IdleWorkers_all == Workers

\* a thread takes the next date only when it is not inside a call
IdleWorkers == Workers \ {worker[d] : d \in Active}

\* the work queue of the pool, and the for loop, hand out dates in
\* date_list order
NextPending(d) ==
    \E i \in DOMAIN date_list :
        /\ date_list[i] = d
        /\ fut[d] = "pending"
        /\ \A j \in 1..(i - 1) : fut[date_list[j]] # "pending"

RunningJob == Len(etl_jobs)

\* POST /engineon/run (run_engineon_etl): the job record is inserted with
\* status "running" and run_etl_job is queued as a background task.
run_engineon_etl(p) ==
    /\ pc = "idle"
    /\ Len(etl_jobs) < MaxJobs
    /\ etl_jobs' = Append(etl_jobs, [status |-> "running", error |-> NONE,
                                     start_date |-> p.start_date,
                                     end_date |-> p.end_date])
    /\ payload' = p
    /\ pc' = "task"
    /\ p_plants' = <<>>
    /\ date_list' = <<>>
    /\ fut' = [d \in Dates |-> "none"]
    /\ ops' = [d \in Dates |-> NoOps]
    /\ consumed' = {}
    /\ printed' = {}
    /\ exc' = ""
    /\ starts' = [d \in Dates |-> 0]
    /\ worker' = [d \in Dates |-> 0]
    /\ at_start' = [raw |-> raw_engineon, summary |-> summary_engineon]
    /\ UNCHANGED <<inputs, raw_engineon, summary_engineon, replayed>>

\* run_etl_job calls process_engineon_data_optimized: the plants are
\* loaded (lines 77-87), date_list is built (90-95) and, with
\* parallel_dates, every date is submitted to the pool (226-227).
process_engineon_data_optimized ==
    /\ pc = "task"
    /\ IF plants = <<>>
       THEN /\ exc' = "No plant data found"
            /\ pc' = "raised"
            /\ UNCHANGED <<p_plants, date_list, fut>>
       ELSE /\ p_plants' = plants_numeric(plants)
            /\ date_list' = date_list_of(payload.start_date, payload.end_date)
            /\ fut' = [d \in Dates |->
                         IF \E i \in DOMAIN date_list' : date_list'[i] = d
                         THEN "pending" ELSE "none"]
            /\ pc' = IF payload.parallel_dates THEN "pool" ELSE "loop"
            /\ exc' = exc
    /\ UNCHANGED <<inputs, raw_engineon, summary_engineon, etl_jobs, payload,
                   ops, consumed, printed, starts, worker, at_start, replayed>>

Outcome(d, r) ==
    [date |-> d, outcome |-> r.outcome,
     raw |-> Cardinality(r.raw_ops), summary |-> Cardinality(r.sum_ops)]

\* _process_one_date(d), from the find() on driving_log to the last
\* in-memory step before the bulk writes (lines 99-216).  A pool worker
\* takes the next queued date when fewer than max_workers are busy; the
\* for loop calls it for the next date when the previous call returned.
process_one_date(d) ==
    /\ NextPending(d)
    /\ pc \in {"loop", "pool", "shutdown"}
    /\ \E w \in IdleWorkers,
          r \in {date_result(d, driving_log[d], payload.max_distance, p_plants)} :
       LET returns == ~r.raised /\ r.outcome \in {"no data", "empty"}
       IN /\ ops' = [ops EXCEPT ![d] = r]
          /\ worker' = [worker EXCEPT ![d] =
                           IF r.raised \/ returns THEN 0 ELSE w]
          /\ fut' = [fut EXCEPT ![d] =
                        IF r.raised THEN "raised"
                        ELSE IF returns THEN "done" ELSE "built"]
          /\ IF pc = "loop" /\ r.raised
             THEN exc' = r.err /\ pc' = "raised"
             ELSE exc' = exc /\ pc' = pc
          /\ printed' = IF pc = "loop" /\ returns
                        THEN printed \cup {Outcome(d, r)} ELSE printed
    /\ starts' = [starts EXCEPT ![d] = @ + 1]
    /\ UNCHANGED <<inputs, raw_engineon, summary_engineon, etl_jobs, payload,
                   p_plants, date_list, consumed, at_start, replayed>>

\* lines 218-219
bulk_write_raw(d) ==
    /\ fut[d] = "built"
    /\ raw_engineon' =
          IF payload.save_raw /\ ops[d].raw_ops # {}
          THEN bulk_write(raw_engineon, ops[d].raw_ops) ELSE raw_engineon
    /\ fut' = [fut EXCEPT ![d] = "rawdone"]
    /\ UNCHANGED <<inputs, summary_engineon, etl_jobs, payload, pc, p_plants,
                   date_list, ops, consumed, printed, exc, starts, worker,
                   at_start, replayed>>

\* lines 220-223 (and the print of line 231 in the for loop)
bulk_write_summary(d) ==
    /\ fut[d] = "rawdone"
    /\ summary_engineon' =
          IF payload.save_summary /\ ops[d].sum_ops # {}
          THEN bulk_write(summary_engineon, ops[d].sum_ops) ELSE summary_engineon
    /\ fut' = [fut EXCEPT ![d] = "done"]
    /\ worker' = [worker EXCEPT ![d] = 0]
    /\ printed' = IF pc = "loop" THEN printed \cup {Outcome(d, ops[d])} ELSE printed
    /\ replayed' = [replayed EXCEPT ![d] =
                        IF payload.save_raw /\ payload.save_summary
                        THEN payload.max_distance ELSE 0]
    /\ UNCHANGED <<inputs, raw_engineon, etl_jobs, payload, pc, p_plants,
                   date_list, ops, consumed, exc, starts, at_start>>

\* one turn of "for r in as_completed(...): print(r.result())": a finished
\* future is handed out; result() returns what the date returned, or
\* raises what the date raised, which leaves the with block:
\* ThreadPoolExecutor.__exit__ then waits for every submitted date.
as_completed(d) ==
    /\ pc = "pool"
    /\ InDateList(d) /\ d \notin consumed /\ Finished(d)
    /\ consumed' = consumed \cup {d}
    /\ IF fut[d] = "raised"
       THEN exc' = ops[d].err /\ pc' = "shutdown" /\ printed' = printed
       ELSE exc' = exc /\ pc' = pc /\ printed' = printed \cup {Outcome(d, ops[d])}
    /\ UNCHANGED <<inputs, raw_engineon, summary_engineon, etl_jobs, payload,
                   p_plants, date_list, fut, ops, starts, worker, at_start,
                   replayed>>

\* "for d in date_list: print(_process_one_date(d))" (lines 229-231) from
\* date_list[i] on, on the stores s: what it leaves in the stores when it
\* returns or is left by the exception of a date.
RECURSIVE sequential_run(_, _)
sequential_run(i, s) ==
    IF i > Len(date_list) THEN s
    ELSE TheOnly({
        IF r.raised THEN s
        ELSE sequential_run(i + 1,
                 [raw |-> IF payload.save_raw /\ r.raw_ops # {}
                          THEN bulk_write(s.raw, r.raw_ops) ELSE s.raw,
                  summary |-> IF payload.save_summary /\ r.sum_ops # {}
                              THEN bulk_write(s.summary, r.sum_ops) ELSE s.summary])
        : r \in {date_result(date_list[i], driving_log[date_list[i]],
                             payload.max_distance, p_plants)} })

AllReturned == \A i \in DOMAIN date_list : fut[date_list[i]] = "done"

\* run_etl_job, lines 63-73: process_engineon_data_optimized returned
run_etl_job_success ==
    /\ \/ pc = "loop" /\ AllReturned
       \/ pc = "pool" /\ \A i \in DOMAIN date_list : date_list[i] \in consumed
    /\ etl_jobs' = [etl_jobs EXCEPT ![RunningJob].status = "success"]
    /\ pc' = "idle"
    /\ UNCHANGED <<inputs, raw_engineon, summary_engineon, payload, p_plants,
                   date_list, fut, ops, consumed, printed, exc, starts,
                   worker, at_start, replayed>>

run_etl_job_failed_no_update ==
    /\ \/ pc = "raised"
       \/ pc = "shutdown" /\ \A i \in DOMAIN date_list : Finished(date_list[i])
    /\ pc' = "idle"
    /\ UNCHANGED <<inputs, raw_engineon, summary_engineon, etl_jobs, payload,
                   p_plants, date_list, fut, ops, consumed, printed, exc,
                   starts, worker, at_start, replayed>>

\* run_etl_job, lines 75-87: process_engineon_data_optimized raised
run_etl_job_failed ==
    /\ \/ pc = "raised"
       \/ pc = "shutdown" /\ \A i \in DOMAIN date_list : Finished(date_list[i])
    /\ etl_jobs' = [etl_jobs EXCEPT ![RunningJob].status = "failed",
                                    ![RunningJob].error = exc]
    /\ pc' = "idle"
    /\ UNCHANGED <<inputs, raw_engineon, summary_engineon, payload, p_plants,
                   date_list, fut, ops, consumed, printed, exc, starts,
                   worker, at_start, replayed>>

\* ------------------------------------------------------------------
\* Inputs
\* ------------------------------------------------------------------
Rd(plate, sec, voltage, status, place, coord) ==
    [plate |-> plate, time |-> NumTok(sec, 1), Voltage |-> voltage,
     status |-> status, place |-> place, coord |-> coord]

\* "lat,lng" on the modelled meridian
At(lat) == <<NumTok(lat, 1), NumTok(0, 1)>>

V30 == NumTok(30, 1)

\* spec scenario A: 10:00, 10:03, 10:06 parked at 30 V in the yard (stored
\* out of time order)
VehicleA(p) ==
    << Rd(p, 360, V30, PARKED, "Yard", At(0)),
       Rd(p, 0, V30, PARKED, "Yard", At(0)),
       Rd(p, 180, V30, PARKED, "Yard", At(0)) >>

\* three intervals at 100 m, 160 m and 500 m from plant P1
VehicleMixed(p) ==
    << Rd(p, 0, V30, PARKED, "Yard", At(100)),
       Rd(p, 180, V30, PARKED, "Yard", At(100)),
       Rd(p, 360, V30, PARKED, "Yard", At(160)),
       Rd(p, 540, V30, PARKED, "Yard", At(500)) >>

\* the second reading has an unparseable voltage
VehicleBadVoltage(p) ==
    << Rd(p, 0, V30, PARKED, "Yard", At(0)),
       Rd(p, 180, TextTok("abc", FALSE), PARKED, "Yard", At(0)),
       Rd(p, 360, V30, PARKED, "Yard", At(0)),
       Rd(p, 540, V30, PARKED, "Yard", At(0)) >>

\* the second reading has an unparseable latitude
VehicleBadCoord(p) ==
    << Rd(p, 0, V30, PARKED, "Yard", At(0)),
       Rd(p, 180, V30, PARKED, "Yard", <<TextTok("abc", FALSE), NumTok(0, 1)>>) >>

DayLogs ==
    { <<>>,
      VehicleMixed(1) \o VehicleBadVoltage(2),
      VehicleBadCoord(1) \o VehicleA(2) }

Plant(code, lat) ==
    [plant_code |-> code, Latitude |-> NumTok(lat, 1), Longitude |-> NumTok(0, 1)]

PlantNoLat(code) ==
    [plant_code |-> code, Latitude |-> TextTok("n/a", FALSE), Longitude |-> NumTok(0, 1)]

PlantSets ==
    { <<>>,
      <<PlantNoLat("PX")>>,
      <<Plant("P1", 0), PlantNoLat("PX"), Plant("P2", 1000)>> }

MaxDistances == {50, 200}

Payloads ==
    {[start_date |-> s, end_date |-> e, max_distance |-> m, save_raw |-> sr,
      save_summary |-> ss, parallel_dates |-> par, max_workers |-> w] :
        s \in Dates, e \in Dates, m \in MaxDistances, sr \in BOOLEAN,
        ss \in BOOLEAN, par \in BOOLEAN, w \in 1..MaxWorkers}

\* ------------------------------------------------------------------
\* One vehicle of one date, stage by stage
\* ------------------------------------------------------------------
\* seg holds the data frames of the loop body of _process_one_date for one
\* vehicle: dfp (the readings), then rows (dfp with datetime and
\* engine_state), dfv (the qualifying rows), events, and the documents.
MaxReadings == 3

NoSeg ==
    [stage |-> "off", dfp |-> <<>>, max_distance |-> 0, version_type |-> NONE,
     rows |-> <<>>, dfv |-> <<>>, event_id |-> <<>>, events |-> <<>>,
     docs |-> NoDocs]

job == <<driving_log, plants, raw_engineon, summary_engineon, etl_jobs,
         payload, pc, p_plants, date_list, fut, ops, consumed, printed,
         exc, starts, worker, at_start, replayed>>

\* lines 125-128
seg_version_type ==
    /\ seg.stage = "read"
    /\ \E v \in {version_type_of(seg.dfp)} :
          seg' = [seg EXCEPT !.version_type = v,
                             !.stage = IF v = NONE THEN "untyped" ELSE "typed"]
    /\ UNCHANGED <<job, fuel>>

\* lines 130-141
seg_engine_state ==
    /\ seg.stage = "typed"
    /\ seg' = [seg EXCEPT !.rows = with_engine_state(seg.dfp), !.stage = "classified"]
    /\ UNCHANGED <<job, fuel>>

\* lines 143-157
seg_intervals ==
    /\ seg.stage = "classified"
    /\ \E v \in {dfv_of(seg.rows)} :
          seg' = [seg EXCEPT !.dfv = v,
                             !.stage = IF v = <<>> THEN "no_intervals" ELSE "filtered"]
    /\ UNCHANGED <<job, fuel>>

\* lines 159-170
seg_events ==
    /\ seg.stage = "filtered"
    /\ IF split_raises(seg.dfv)
       THEN seg' = [seg EXCEPT !.docs = Raises("IndexError"), !.stage = "raised"]
       ELSE seg' = [seg EXCEPT !.event_id =
                                   [k \in DOMAIN seg.dfv |->
                                       event_id_of(seg.dfv, k, seg.max_distance)],
                               !.events = events_of(seg.dfv, seg.max_distance),
                               !.stage = "segmented"]
    /\ UNCHANGED <<job, fuel>>

SegPlants == plants_numeric(<<Plant("P1", 0), PlantNoLat("PX"), Plant("P2", 1000)>>)

\* lines 172-216 (the vehicle is plate 1, the date is date 1)
seg_documents ==
    /\ seg.stage = "segmented"
    /\ \E r \in {plate_docs(1, 1, seg.max_distance, SegPlants,
                            seg.version_type, seg.events)} :
          seg' = [seg EXCEPT !.docs = r,
                             !.stage = IF r.raised THEN "raised" ELSE "done"]
    /\ UNCHANGED <<job, fuel>>

NextSeg ==
    \/ seg_version_type
    \/ seg_engine_state
    \/ seg_intervals
    \/ seg_events
    \/ seg_documents

\* The readings of the vehicle: up to MaxReadings of them in time order,
\* each some seconds after the previous one.
SegGaps == {0, 300, 301}

SegVoltageStatus ==
    { <<NumTok(25, 1), PARKED>>, <<NumTok(24999, 1000), PARKED>>,
      <<TextTok("abc", FALSE), PARKED>>, <<NumTok(30, 1), "Moving">>,
      <<AbsentTok, "Moving">> }

SegPlaces == {"Yard", "Road"}

SegChoices ==
    {[gap |-> g, vs |-> vs, place |-> pl] :
        g \in SegGaps, vs \in SegVoltageStatus, pl \in SegPlaces}

RECURSIVE SegTime(_, _)
SegTime(c, i) == IF i = 0 THEN 0 ELSE SegTime(c, i - 1) + c[i].gap

SegLog(c) ==
    [i \in DOMAIN c |->
        Rd(1, SegTime(c, i), c[i].vs[1], c[i].vs[2], c[i].place, At(0))]

SegFirst == {c \in SegChoices : c.gap = 0}

SegMaxDistances == {200}

\* Readings that all qualify (parked at 30 V in the yard, 3 minutes after
\* the previous one) with varied coordinate text: up to MaxIntervals
\* intervals after a first reading at 0 m.
MaxIntervals == 3

GeoCoords ==
    { At(0), At(200), At(201), At(500),
      <<TextTok("abc", FALSE), NumTok(0, 1)>>,
      <<NumTok(0, 1), TextTok("abc", FALSE)>>,
      <<TextTok("abc", FALSE)>>,
      <<AbsentTok>> }

GeoLog(c) ==
    [i \in 1..(Len(c) + 1) |->
        Rd(1, 180 * (i - 1), V30, PARKED, "Yard",
           IF i = 1 THEN At(0) ELSE c[i - 1])]

GeoMaxDistances == {200, 500}

\* Readings 3 minutes apart, parked in the yard at 0 m, with varied
\* voltage values.
VerVoltages ==
    { V30, TextTok(SENTINEL, FALSE), TextTok(SENTINEL, TRUE),
      TextTok("abc", FALSE), AbsentTok, NullTok }

VerLog(c) ==
    [i \in DOMAIN c |-> Rd(1, 180 * (i - 1), c[i], PARKED, "Yard", At(0))]

\* Readings that start with one interval (two readings 3 minutes apart,
\* parked at 30 V in the yard) followed by up to MaxBetween readings, each
\* either 3 minutes or an hour after the previous one, engine on or off,
\* parked or moving, in the yard or on the road.
MaxBetween == 3

GapCoords == {At(0), At(200), At(201)}

GapKinds ==
    { [gap |-> 180, vs |-> <<V30, PARKED>>, place |-> "Yard"],
      [gap |-> 3600, vs |-> <<V30, PARKED>>, place |-> "Yard"],
      [gap |-> 180, vs |-> <<NumTok(24, 1), PARKED>>, place |-> "Yard"],
      [gap |-> 180, vs |-> <<V30, "Moving">>, place |-> "Yard"],
      [gap |-> 180, vs |-> <<V30, PARKED>>, place |-> "Road"] }

GapChoices == {[kind |-> kd, coord |-> co] : kd \in GapKinds, co \in GapCoords}

RECURSIVE GapTime(_, _)
GapTime(c, i) == IF i = 0 THEN 180 ELSE GapTime(c, i - 1) + c[i].kind.gap

GapLog(first, c) ==
    << Rd(1, 0, V30, PARKED, "Yard", At(0)),
       Rd(1, 180, V30, PARKED, "Yard", first) >>
    \o [i \in DOMAIN c |->
           Rd(1, GapTime(c, i), c[i].kind.vs[1], c[i].kind.vs[2],
              c[i].kind.place, c[i].coord)]

GapMaxDistances == {200}

\* ------------------------------------------------------------------
\* calculate_fuel: one row of the merged trip/cost/engine-on frame
\* ------------------------------------------------------------------
MIXER10 == "Mixer 10 wheels"
MIXER6 == "Mixer 6 wheels"

\* df[vehicle type].map(FUEL_RATE).fillna(0): liters per hour
FUEL_RATE(vehicle_type) ==
    IF vehicle_type = MIXER10 THEN Int2F(2)
    ELSE IF vehicle_type = MIXER6 THEN Int2F(1)
    ELSE Int2F(0)

LoadMinutesPerTrip == 30

\* lines 183-194: the liters of the at-plant minutes
plant_liter(row) ==
    round2(MulF(FUEL_RATE(row.vehicle_type),
                DivF(clip_lower0(SubF(row.TotalMinutes,
                                      MulF(fillna0(row.trip),
                                           Int2F(LoadMinutesPerTrip)))),
                     60)))

\* lines 200-208: the liters of the not-at-plant minutes
not_plant_liter(row) ==
    round2(MulF(FUEL_RATE(row.vehicle_type),
                DivF(fillna0(row.total_engine_on_min_not_plant), 60)))

NoFuel ==
    [stage |-> "off", vehicle_type |-> "", trip |-> NaN, TotalMinutes |-> NaN,
     has_not_plant |-> FALSE, total_engine_on_min_not_plant |-> NaN,
     liter |-> NaN, not_plant_liter |-> NaN]

\* calculate_fuel on the row; not_plant_liter exists only when the frame
\* has the column total_engine_on_min_not_plant (line 199)
calculate_fuel ==
    /\ fuel.stage = "merged"
    /\ fuel' = [fuel EXCEPT !.liter = plant_liter(fuel),
                            !.not_plant_liter =
                                IF fuel.has_not_plant THEN not_plant_liter(fuel)
                                ELSE NaN,
                            !.stage = "done"]
    /\ UNCHANGED <<job, seg>>

\* the rows: trip counts up to MaxTrips or missing (outer join), minutes
\* around one and two trips' worth of loading time or missing
MaxTrips == 2

FuelTrips == {NaN} \cup {Int2F(t) : t \in 0..MaxTrips}

FuelMinutes ==
    {NaN, Rat(61, 2)} \cup {Int2F(m) : m \in {0, 29, 30, 31, 60, 61, 90}}

FuelVehicleTypes == {MIXER10, MIXER6, "Pickup"}

\* ------------------------------------------------------------------
\* Specifications
\* ------------------------------------------------------------------
InitJob ==
    /\ raw_engineon = <<>>
    /\ summary_engineon = <<>>
    /\ etl_jobs = <<>>
    /\ payload = NoPayload
    /\ pc = "idle"
    /\ p_plants = <<>>
    /\ date_list = <<>>
    /\ fut = [d \in Dates |-> "none"]
    /\ ops = [d \in Dates |-> NoOps]
    /\ consumed = {}
    /\ printed = {}
    /\ exc = ""
    /\ starts = [d \in Dates |-> 0]
    /\ worker = [d \in Dates |-> 0]
    /\ at_start = [raw |-> <<>>, summary |-> <<>>]
    /\ replayed = [d \in Dates |-> 0]

Init ==
    /\ driving_log \in [Dates -> DayLogs]
    /\ plants \in PlantSets
    /\ seg = NoSeg
    /\ fuel = NoFuel
    /\ InitJob

\* one request on an empty analytics database
Request ==
    \E p \in Payloads :
        /\ etl_jobs = <<>>
        /\ p.parallel_dates \/ p.max_workers = 1
        /\ run_engineon_etl(p)

Worker ==
    \E d \in Dates :
        \/ process_one_date(d)
        \/ bulk_write_raw(d)
        \/ bulk_write_summary(d)
        \/ as_completed(d)

Next ==
    \/ Request
    \/ process_engineon_data_optimized
    \/ Worker
    \/ run_etl_job_success
    \/ run_etl_job_failed

Spec == Init /\ [][Next]_vars

\* Requests one after another on the same database: the full plant set,
\* sequential runs, both stores written.
ReplayPayloads ==
    {p \in Payloads :
        /\ p.save_raw /\ p.save_summary
        /\ ~p.parallel_dates /\ p.max_workers = 1
        /\ p.start_date <= p.end_date}

InitReplay ==
    /\ driving_log \in [Dates -> DayLogs]
    /\ plants = <<Plant("P1", 0), PlantNoLat("PX"), Plant("P2", 1000)>>
    /\ seg = NoSeg
    /\ fuel = NoFuel
    /\ InitJob

Replay == \E p \in ReplayPayloads : run_engineon_etl(p)

NextReplay ==
    \/ Replay
    \/ process_engineon_data_optimized
    \/ \E d \in Dates :
          \/ process_one_date(d)
          \/ bulk_write_raw(d)
          \/ bulk_write_summary(d)
    \/ run_etl_job_success
    \/ run_etl_job_failed

SpecReplay == InitReplay /\ [][NextReplay]_vars

\* Jobs one after another under the scheduling of the server: requests
\* may stop coming, but the queued background task is started, a thread
\* that can take the next date takes it, a thread inside a date goes on
\* to its end, and run_etl_job writes the status when the run has ended.
JobPayloads ==
    {p \in Payloads :
        /\ p.save_raw /\ p.save_summary
        /\ p.parallel_dates \/ p.max_workers = 1}

Submit == \E p \in JobPayloads : run_engineon_etl(p)

NextJobs ==
    \/ Submit
    \/ process_engineon_data_optimized
    \/ Worker
    \/ run_etl_job_success
    \/ run_etl_job_failed

\* the steps of run_etl_job other than a thread taking a date
run_etl_job ==
    \/ process_engineon_data_optimized
    \/ \E d \in Dates :
          bulk_write_raw(d) \/ bulk_write_summary(d) \/ as_completed(d)
    \/ run_etl_job_success
    \/ run_etl_job_failed

\* ENABLED process_one_date(d): the date is the next of the queue and a
\* thread is free (what the date builds or raises is always defined)
process_one_date_enabled(d) ==
    /\ NextPending(d)
    /\ pc \in {"loop", "pool", "shutdown"}
    /\ IdleWorkers # {}

\* WF_vars(process_one_date(d)) with its ENABLED written as the guard and
\* its step as the one step that counts a call of the date
process_one_date_fair(d) ==
    \/ []<>(~process_one_date_enabled(d))
    \/ []<><<starts'[d] = starts[d] + 1>>_vars

SpecJobs ==
    /\ Init /\ [][NextJobs]_vars
    /\ WF_vars(run_etl_job)
    /\ \A d \in Dates : process_one_date_fair(d)

\* One vehicle of one date through the loop body of _process_one_date.
InitSeg ==
    /\ driving_log = [d \in Dates |-> <<>>]
    /\ plants = <<>>
    /\ fuel = NoFuel
    /\ InitJob
    /\ \E n \in 0..MaxReadings, md \in SegMaxDistances :
          \E c \in [1..n -> SegChoices] :
              /\ n > 0 => c[1] \in SegFirst
              /\ seg = [NoSeg EXCEPT !.stage = "read", !.dfp = SegLog(c),
                                     !.max_distance = md]

SpecSeg == InitSeg /\ [][NextSeg]_vars

InitGeo ==
    /\ driving_log = [d \in Dates |-> <<>>]
    /\ plants = <<>>
    /\ fuel = NoFuel
    /\ InitJob
    /\ \E n \in 0..MaxIntervals, md \in GeoMaxDistances :
          \E c \in [1..n -> GeoCoords] :
              seg = [NoSeg EXCEPT !.stage = "read", !.dfp = GeoLog(c),
                                  !.max_distance = md]

SpecGeo == InitGeo /\ [][NextSeg]_vars

InitVer ==
    /\ driving_log = [d \in Dates |-> <<>>]
    /\ plants = <<>>
    /\ fuel = NoFuel
    /\ InitJob
    /\ \E n \in 1..MaxReadings, md \in SegMaxDistances :
          \E c \in [1..n -> VerVoltages] :
              seg = [NoSeg EXCEPT !.stage = "read", !.dfp = VerLog(c),
                                  !.max_distance = md]

SpecVer == InitVer /\ [][NextSeg]_vars

InitGap ==
    /\ driving_log = [d \in Dates |-> <<>>]
    /\ plants = <<>>
    /\ fuel = NoFuel
    /\ InitJob
    /\ \E n \in 0..MaxBetween, md \in GapMaxDistances, first \in GapCoords :
          \E c \in [1..n -> GapChoices] :
              seg = [NoSeg EXCEPT !.stage = "read", !.dfp = GapLog(first, c),
                                  !.max_distance = md]

SpecGap == InitGap /\ [][NextSeg]_vars

\* One row of the merged frame through calculate_fuel.
InitFuel ==
    /\ driving_log = [d \in Dates |-> <<>>]
    /\ plants = <<>>
    /\ seg = NoSeg
    /\ InitJob
    /\ \E vt \in FuelVehicleTypes, t \in FuelTrips, m \in FuelMinutes,
          has \in BOOLEAN, np \in FuelMinutes :
          /\ ~has => np = NaN
          /\ fuel = [NoFuel EXCEPT !.stage = "merged", !.vehicle_type = vt,
                                   !.trip = t, !.TotalMinutes = m,
                                   !.has_not_plant = has,
                                   !.total_engine_on_min_not_plant = np]

SpecFuel == InitFuel /\ [][calculate_fuel]_vars

\* ------------------------------------------------------------------
\* Properties
\* ------------------------------------------------------------------
JobEnded == pc = "idle" /\ etl_jobs # <<>>

Range == payload.start_date..payload.end_date

Persisted(d) ==
    /\ payload.save_raw =>
          \A o \in ops[d].raw_ops :
              o._id \in DOMAIN raw_engineon /\ raw_engineon[o._id] = o
    /\ payload.save_summary =>
          \A o \in ops[d].sum_ops :
              o._id \in DOMAIN summary_engineon /\ summary_engineon[o._id] = o

\* C1: when a job that loaded its plants has ended, every date of the
\* range has been processed, the documents of every date that did not
\* raise are in the stores and its counts are reported, and every date
\* that raised is reported with its date.
C1_PerDateFailureIsolated ==
    (JobEnded /\ plants # <<>>) =>
        \A d \in Range :
            /\ Finished(d)
            /\ fut[d] = "done" => Outcome(d, ops[d]) \in printed /\ Persisted(d)
            /\ fut[d] = "raised" => \E o \in printed : o.date = d

\* C2: with a non-empty set of numeric plants, no date raises, whatever
\* voltage or coordinate text its readings carry.
C2_MalformedReadingNeverRaises ==
    p_plants # <<>> => \A d \in Dates : fut[d] # "raised"

\* C3: when no plant with numeric latitude and longitude exists, no date
\* is ever started, nothing is written, and the job ends as failed.
C3_NoFacilityAborts ==
    plants_numeric(plants) = <<>> =>
        /\ \A d \in Dates : starts[d] = 0
        /\ raw_engineon = <<>> /\ summary_engineon = <<>>
        /\ JobEnded => etl_jobs[RunningJob].status = "failed"

RECURSIVE MinutesOver(_)
MinutesOver(S) ==
    IF S = {} THEN Int2F(0)
    ELSE LET o == CHOOSE x \in S : TRUE
         IN AddF(o.total_engine_on_min, MinutesOver(S \ {o}))

\* C4: for every vehicle of a date with raw event documents, the date has
\* a summary document of the vehicle that carries the minutes of the
\* events with a nearest plant and, in a field of its own, the minutes of
\* the events without one.
C4_SummaryExposesBothTotals ==
    \A d \in Dates : \A p \in {o.plate : o \in ops[d].raw_ops} :
        \E sm \in ops[d].sum_ops :
            /\ sm.plate = p
            /\ "total_engine_on_min_not_plant" \in DOMAIN sm
            /\ sm.total_engine_on_min =
                  MinutesOver({o \in ops[d].raw_ops :
                                  o.plate = p /\ o.nearest_plant # NONE})
            /\ sm.total_engine_on_min_not_plant =
                  MinutesOver({o \in ops[d].raw_ops :
                                  o.plate = p /\ o.nearest_plant = NONE})

\* C5: a step taken while a date is being written again, after an earlier
\* run of that date with the same max_distance wrote both stores, changes
\* neither store.
C5_ReplayIdempotent ==
    [][\A d \in Dates :
          (fut[d] \in {"built", "rawdone"} /\ replayed[d] = payload.max_distance)
              => (raw_engineon' = raw_engineon
                  /\ summary_engineon' = summary_engineon)]_vars

\* C5 witness: in a second job, the raw documents of a date that an
\* earlier job wrote with the same max_distance have been written again.
C5_Replayed ==
    \E d \in Dates :
        /\ Len(etl_jobs) = 2
        /\ fut[d] = "rawdone"
        /\ replayed[d] = payload.max_distance
        /\ ops[d].raw_ops # {} /\ ops[d].sum_ops # {}
        /\ \A o \in ops[d].raw_ops : raw_engineon[o._id] = o

\* C6: when a parallel job has ended, the two stores hold what the for
\* loop over the same dates on the same data leaves in them.
C6_ParallelEqualsSequential ==
    (JobEnded /\ payload.parallel_dates) =>
        [raw |-> raw_engineon, summary |-> summary_engineon]
            = sequential_run(1, at_start)

\* C7: in a sequential job no date is started twice, a date is started
\* only after every earlier date of the range was started and has
\* finished, and when the job has ended every date of the range was
\* started exactly once.
C7_SequentialInOrderExactlyOnce ==
    (etl_jobs # <<>> /\ ~payload.parallel_dates) =>
        /\ \A d \in Dates : starts[d] <= 1
        /\ \A d, e \in Range :
              (d < e /\ starts[e] > 0) => starts[d] = 1 /\ Finished(d)
        /\ (JobEnded /\ plants # <<>>) => \A d \in Range : starts[d] = 1

\* C8: in a parallel job at most max_workers dates are inside
\* _process_one_date, each of them on a thread of the pool that runs no
\* other date, no date is started twice, and when the job has ended every
\* date of the range was started once and has finished.
C8_WorkerPool ==
    (etl_jobs # <<>> /\ payload.parallel_dates) =>
        /\ Cardinality(Active) <= payload.max_workers
        /\ \A d \in Active : worker[d] \in 1..payload.max_workers
        /\ \A d, e \in Active : worker[d] = worker[e] => d = e
        /\ \A d \in Dates : starts[d] <= 1
        /\ (JobEnded /\ plants # <<>>) =>
              \A d \in Range : starts[d] = 1 /\ Finished(d)

\* C8 witness: every thread of the pool is inside a date while another
\* date of the range waits in the queue.
C8_PoolSaturated ==
    /\ payload.parallel_dates
    /\ pc = "pool"
    /\ Cardinality(Active) = payload.max_workers
    /\ \E d \in Range : fut[d] = "pending"

SegFiltered ==
    seg.stage \in {"no_intervals", "filtered", "segmented", "raised", "done"}

GapSeconds(i) == seg.rows[i].datetime.num - seg.rows[i - 1].datetime.num

\* C9: row i of the time-sorted readings is kept as an interval exactly
\* when it has a previous row, both rows are Parking - Engine On, both
\* have the same place, and the seconds between them are more than 0 and
\* at most 5 minutes.
C9_IntervalQualification ==
    SegFiltered =>
        \A i \in DOMAIN seg.rows :
            (\E k \in DOMAIN seg.dfv : seg.dfv[k].row = i)
            <=> /\ i > 1
                /\ seg.rows[i].engine_state = ENGINE_ON
                /\ seg.rows[i - 1].engine_state = ENGINE_ON
                /\ seg.rows[i].place = seg.rows[i - 1].place
                /\ 0 < GapSeconds(i)
                /\ GapSeconds(i) <= 60 * MaxGapMinutes

\* C9 witness: of three readings the first is not Engine On, so the
\* second is not an interval, and the third, exactly 5 minutes after the
\* second, is the only interval.
C9_FiveMinuteInterval ==
    /\ seg.stage = "filtered"
    /\ Len(seg.rows) = 3
    /\ seg.rows[1].engine_state # ENGINE_ON
    /\ Len(seg.dfv) = 1
    /\ seg.dfv[1].row = 3
    /\ seg.dfv[1].time_diff = Int2F(MaxGapMinutes)

\* C10: every reading gets exactly one engine state: Other when its
\* status is not Parked, whatever its voltage; else Unknown when the
\* voltage is not a number, Parking - Engine On when it is at least 25,
\* and Parking - Engine Off when it is below 25.
C10_ClassifyEngineState ==
    seg.stage \notin {"off", "read", "typed", "untyped"} =>
        /\ Len(seg.rows) = Len(seg.dfp)
        /\ \A i \in DOMAIN seg.rows :
              LET v == seg.rows[i].Voltage
                  es == seg.rows[i].engine_state
              IN IF seg.rows[i].status # PARKED THEN es = "Other"
                 ELSE IF v.kind # "num" THEN es = "Unknown"
                 ELSE IF v.val.num >= EngineOnVoltage * v.val.den
                      THEN es = ENGINE_ON
                      ELSE es = "Parking - Engine Off"

\* C10 witness: a parked reading at exactly 25 V is Engine On, one just
\* below is Engine Off, and a moving reading without voltage is Other.
C10_ThresholdClassified ==
    /\ seg.stage = "classified"
    /\ \E i, j, k \in DOMAIN seg.rows :
          /\ seg.rows[i].Voltage = NumTok(25, 1)
          /\ seg.rows[i].engine_state = ENGINE_ON
          /\ seg.rows[j].Voltage = NumTok(24999, 1000)
          /\ seg.rows[j].engine_state = "Parking - Engine Off"
          /\ seg.rows[k].Voltage = AbsentTok
          /\ seg.rows[k].engine_state = "Other"

\* the coordinate text of interval k gives no numeric latitude or longitude
CoordNaN(k) ==
    \/ Len(seg.dfv[k].coord) < 2
    \/ seg.dfv[k].coord[1].kind # "num"
    \/ seg.dfv[k].coord[2].kind # "num"

\* C11: an interval whose coordinates are NaN never makes the vehicle of
\* the date raise; it starts a new event and so does the interval after
\* it; and the raw document of its event is built with nearest_plant
\* None.
C11_NaNIntervalNullFacility ==
    \A k \in DOMAIN seg.dfv :
        CoordNaN(k) =>
            /\ seg.stage # "raised"
            /\ seg.stage \in {"segmented", "done"} =>
                  /\ k > 1 => seg.event_id[k] # seg.event_id[k - 1]
                  /\ k < Len(seg.dfv) => seg.event_id[k + 1] # seg.event_id[k]
            /\ seg.stage = "done" =>
                  \E o \in seg.docs.raw_ops :
                      o.event_id = seg.event_id[k] /\ o.nearest_plant = NONE

\* distance from the stored centroid of a raw document to plant j
PlantDist(o, j) ==
    haversine(o.lat, o.lng, SegPlants[j].Latitude, SegPlants[j].Longitude)

\* C12: when several plants are at the minimum distance from the
\* centroid of an event and that distance is at most max_distance, the
\* nearest_plant of its raw document is the one that comes first in the
\* order of the plants.
C12_TieBreakFirstPlant ==
    seg.stage = "done" =>
        \A o \in seg.docs.raw_ops : \A j \in DOMAIN SegPlants :
            ( /\ LeF(PlantDist(o, j), Int2F(seg.max_distance))
              /\ \A i \in DOMAIN SegPlants : LeF(PlantDist(o, j), PlantDist(o, i))
              /\ \A i \in 1..(j - 1) : LtF(PlantDist(o, j), PlantDist(o, i)) )
            => o.nearest_plant = SegPlants[j].plant_code

\* C12 witness: an event 500 m from both P1 and P2, with max_distance
\* 500, is given to P1.
C12_EquidistantPlants ==
    /\ seg.stage = "done"
    /\ seg.max_distance = 500
    /\ \E o \in seg.docs.raw_ops :
          /\ o.lat = Int2F(500)
          /\ PlantDist(o, 1) = Int2F(500)
          /\ PlantDist(o, 2) = Int2F(500)
          /\ o.nearest_plant = "P1"

\* rate * max(0, minutes - trips * 30) / 60, rounded to 2 decimals
FuelLiters(vehicle_type, minutes, trips) ==
    round2(MulF(FUEL_RATE(vehicle_type),
                DivF(IF LeF(minutes, MulF(trips, Int2F(LoadMinutesPerTrip)))
                     THEN Int2F(0)
                     ELSE SubF(minutes, MulF(trips, Int2F(LoadMinutesPerTrip))),
                     60)))

\* C13: for a row with known minutes, both the at-plant liters and the
\* not-at-plant liters are rate * max(0, minutes - trips * 30) / 60 of
\* their own minutes (a missing trip count is 0 trips): never negative,
\* and 0 when the minutes do not exceed trips * 30.
C13_FuelLiters ==
    fuel.stage = "done" =>
        /\ ~IsNaN(fuel.TotalMinutes) =>
              fuel.liter = FuelLiters(fuel.vehicle_type, fuel.TotalMinutes,
                                      fillna0(fuel.trip))
        /\ (fuel.has_not_plant /\ ~IsNaN(fuel.total_engine_on_min_not_plant)) =>
              fuel.not_plant_liter =
                  FuelLiters(fuel.vehicle_type,
                             fuel.total_engine_on_min_not_plant,
                             fillna0(fuel.trip))

HasSentinel ==
    \E i \in DOMAIN seg.dfp :
        seg.dfp[i].Voltage.kind = "text" /\ seg.dfp[i].Voltage.body = SENTINEL

HasNumber == \E i \in DOMAIN seg.dfp : seg.dfp[i].Voltage.kind = "num"

\* C14: once the version of a vehicle of a date is decided, it is v1 when
\* some reading carries the firmware-not-supported text (padded or not),
\* else v2 when some reading carries a number; with neither, no raw and
\* no summary document is ever built; and every summary document built
\* carries that version.
C14_VersionType ==
    seg.stage \notin {"off", "read"} =>
        /\ HasSentinel => seg.version_type = "v1"
        /\ (~HasSentinel /\ HasNumber) => seg.version_type = "v2"
        /\ (~HasSentinel /\ ~HasNumber) =>
              /\ seg.stage \in {"untyped", "typed", "classified", "no_intervals"}
              /\ seg.docs = NoDocs
        /\ \A o \in seg.docs.sum_ops :
              o.version_type = IF HasSentinel THEN "v1" ELSE "v2"

\* C14 witness: two readings at 30 V and one with the padded
\* firmware-not-supported text give a summary document of version v1.
C14_SentinelWins ==
    /\ seg.stage = "done"
    /\ \E i \in DOMAIN seg.dfp : seg.dfp[i].Voltage = TextTok(SENTINEL, TRUE)
    /\ \E i \in DOMAIN seg.dfp : seg.dfp[i].Voltage = V30
    /\ \E o \in seg.docs.sum_ops : o.version_type = "v1"

\* metres between the coordinates of intervals k - 1 and k (both numeric)
CoordGap(k) ==
    Abs(seg.dfv[k].coord[1].val.num - seg.dfv[k - 1].coord[1].val.num)

\* interval k starts a new event: the first one, or NaN coordinates on it
\* or on the previous one, or more than max_distance apart
StartsEvent(k) ==
    \/ k = 1
    \/ CoordNaN(k) \/ CoordNaN(k - 1)
    \/ CoordGap(k) > seg.max_distance

\* the ordinal of the event of interval k: its row index in events
EventOrdinal(k) ==
    (CHOOSE e \in DOMAIN seg.events :
        seg.events[e].event_id = seg.event_id[k]) - 1

\* C15: once the intervals of a vehicle are segmented, the first interval
\* is in event 0, every later interval is in the event of the previous
\* one when their distance is at most max_distance, and in the next event
\* when it is larger or NaN; the raw documents built carry these ordinals
\* in their keys (their event_id field is the ordinal plus one).
C15_EventBreaks ==
    seg.stage \in {"segmented", "done"} =>
        /\ \A k \in DOMAIN seg.dfv :
              EventOrdinal(k) =
                  IF k = 1 THEN 0
                  ELSE EventOrdinal(k - 1) + (IF StartsEvent(k) THEN 1 ELSE 0)
        /\ seg.stage = "done" =>
              \A k \in DOMAIN seg.dfv :
                  \E o \in seg.docs.raw_ops :
                      /\ o._id = <<1, 1, EventOrdinal(k)>>
                      /\ o.event_id = EventOrdinal(k) + 1

\* C15 witness: three intervals at 0 m, 200 m and 500 m with max_distance
\* 200: the second continues event 0, the third starts event 1.
C15_ContinueThenBreak ==
    /\ seg.stage = "done"
    /\ seg.max_distance = 200
    /\ Len(seg.dfv) = 3
    /\ ~CoordNaN(1) /\ ~CoordNaN(2) /\ ~CoordNaN(3)
    /\ CoordGap(2) = 200 /\ CoordGap(3) = 300
    /\ EventOrdinal(1) = 0 /\ EventOrdinal(2) = 0 /\ EventOrdinal(3) = 1

\* C16: the nearest_plant of every raw document is the code of a plant
\* whose distance from the centroid is the least of all plants and at
\* most max_distance, or None when every plant is farther than
\* max_distance.
C16_NearestWithinMaxDistance ==
    seg.stage = "done" =>
        \A o \in seg.docs.raw_ops :
            IF o.nearest_plant = NONE
            THEN \A j \in DOMAIN SegPlants :
                    GtF(PlantDist(o, j), Int2F(seg.max_distance))
            ELSE \E j \in DOMAIN SegPlants :
                    /\ o.nearest_plant = SegPlants[j].plant_code
                    /\ LeF(PlantDist(o, j), Int2F(seg.max_distance))
                    /\ \A i \in DOMAIN SegPlants :
                          LeF(PlantDist(o, j), PlantDist(o, i))

\* C16 witness: with max_distance 200 an event exactly 200 m from P1 is
\* given to P1 and an event 201 m from it is given to no plant.
C16_BoundaryDistance ==
    /\ seg.stage = "done"
    /\ seg.max_distance = 200
    /\ \E o \in seg.docs.raw_ops :
          PlantDist(o, 1) = Int2F(200) /\ o.nearest_plant = "P1"
    /\ \E o \in seg.docs.raw_ops :
          PlantDist(o, 1) = Int2F(201) /\ o.nearest_plant = NONE

RECURSIVE MinutesOfIntervals(_)
MinutesOfIntervals(K) ==
    IF K = {} THEN Int2F(0)
    ELSE LET k == CHOOSE x \in K : TRUE
         IN AddF(seg.dfv[k].time_diff, MinutesOfIntervals(K \ {k}))

RECURSIVE MinutesOfEvents(_)
MinutesOfEvents(E) ==
    IF E = {} THEN Int2F(0)
    ELSE LET e == CHOOSE x \in E : TRUE
         IN AddF(seg.events[e].total_engine_on_min, MinutesOfEvents(E \ {e}))

\* C17: once the intervals of a vehicle are segmented, every interval is
\* in exactly one event, the minutes of an event are the sum of the
\* time_diff of its intervals, and the minutes of all events add up to
\* the time_diff of all intervals.
C17_EventMinutes ==
    seg.stage \in {"segmented", "done"} =>
        /\ \A k \in DOMAIN seg.dfv :
              Cardinality({e \in DOMAIN seg.events :
                              seg.events[e].event_id = seg.event_id[k]}) = 1
        /\ \A e \in DOMAIN seg.events :
              seg.events[e].total_engine_on_min =
                  MinutesOfIntervals({k \in DOMAIN seg.dfv :
                                         seg.event_id[k] = seg.events[e].event_id})
        /\ MinutesOfEvents(DOMAIN seg.events) = MinutesOfIntervals(DOMAIN seg.dfv)

\* C17 witness: three intervals of 3 minutes in two events, of 6 and of 3
\* minutes.
C17_TwoEvents ==
    /\ seg.stage = "segmented"
    /\ Len(seg.dfv) = 3
    /\ Len(seg.events) = 2
    /\ seg.events[1].total_engine_on_min = Int2F(6)
    /\ seg.events[2].total_engine_on_min = Int2F(3)

\* rows i - 1 and i of the sorted readings make an interval
IntervalAt(i) ==
    /\ seg.rows[i].engine_state = ENGINE_ON
    /\ seg.rows[i - 1].engine_state = ENGINE_ON
    /\ seg.rows[i].place = seg.rows[i - 1].place
    /\ 0 < GapSeconds(i)
    /\ GapSeconds(i) <= 60 * MaxGapMinutes

\* C18: a vehicle with fewer than 2 readings, or with no two consecutive
\* readings that make an interval, ends the loop body without raising,
\* with no raw and no summary document.
C18_NoIntervalsNoRows ==
    /\ Len(seg.dfp) < 2 =>
          /\ seg.stage \in {"off", "read", "untyped", "typed", "classified",
                            "no_intervals"}
          /\ seg.docs = NoDocs
    /\ ( /\ seg.stage \notin {"off", "read", "untyped", "typed", "classified"}
         /\ \A i \in 2..Len(seg.rows) : ~IntervalAt(i) ) =>
          /\ seg.stage = "no_intervals"
          /\ seg.dfv = <<>>
          /\ seg.docs = NoDocs

\* C18 witness: a single parked reading with the engine on has gone
\* through the interval filter and left nothing.
C18_SingleReading ==
    /\ seg.stage = "no_intervals"
    /\ Len(seg.dfp) = 1
    /\ seg.rows[1].engine_state = ENGINE_ON

\* the vehicles of date d with an event that has a nearest plant
AtPlantPlates(d) ==
    {o.plate : o \in {x \in ops[d].raw_ops : x.nearest_plant # NONE}}

\* C19: of a date that reached its bulk writes, a vehicle has a summary
\* document exactly when one of its raw documents has a nearest plant,
\* and it has only one; when the date has returned, its raw documents are
\* in the raw store (with save_raw) and the summary store holds a row of
\* the date exactly for these vehicles (with save_summary); and the
\* summary count reported for the date is the number of these vehicles.
C19_SummaryIffAtPlant ==
    \A d \in Dates :
        fut[d] \in {"built", "rawdone", "done"} =>
            /\ {sm.plate : sm \in ops[d].sum_ops} = AtPlantPlates(d)
            /\ Cardinality(ops[d].sum_ops) = Cardinality(AtPlantPlates(d))
            /\ fut[d] = "done" =>
                  /\ Persisted(d)
                  /\ payload.save_summary =>
                        {k[1] : k \in {x \in DOMAIN summary_engineon : x[2] = d}}
                            = AtPlantPlates(d)
            /\ \A o \in printed :
                  (o.date = d /\ o.outcome = "counts") =>
                      /\ o.summary = Cardinality(AtPlantPlates(d))
                      /\ o.raw = Cardinality(ops[d].raw_ops)

\* C19 witness: a date has returned and is reported with fewer summaries
\* than vehicles with events: one vehicle has raw rows stored and no
\* summary row, another has a summary row.
C19_RawWithoutSummary ==
    \E d \in Dates :
        /\ fut[d] = "done"
        /\ payload.save_raw /\ payload.save_summary
        /\ \E k \in DOMAIN raw_engineon :
              k[2] = d /\ <<k[1], d>> \notin DOMAIN summary_engineon
        /\ \E k \in DOMAIN summary_engineon : k[2] = d
        /\ \E o \in printed : o.date = d /\ o.summary = 1 /\ o.raw > 1

\* C20: no step removes a row from the raw or the summary store, and a
\* step changes a stored row only by writing, for a date in its bulk
\* writes, the document the date built for that key.
C20_NeverDeletes ==
    [][ /\ \A k \in DOMAIN raw_engineon :
              /\ k \in DOMAIN raw_engineon'
              /\ raw_engineon'[k] # raw_engineon[k] =>
                    \E d \in Dates :
                        /\ fut[d] = "built"
                        /\ raw_engineon'[k] \in ops[d].raw_ops
                        /\ raw_engineon'[k]._id = k
        /\ \A k \in DOMAIN summary_engineon :
              /\ k \in DOMAIN summary_engineon'
              /\ summary_engineon'[k] # summary_engineon[k] =>
                    \E d \in Dates :
                        /\ fut[d] = "rawdone"
                        /\ summary_engineon'[k] \in ops[d].sum_ops
                        /\ summary_engineon'[k]._id = k ]_vars

\* C20 witness: a later job has written a date again with fewer events,
\* and a raw row of the date that it did not regenerate is still stored.
C20_StaleRawRow ==
    \E d \in Dates :
        /\ Len(etl_jobs) = 2
        /\ fut[d] = "done"
        /\ ops[d].raw_ops # {}
        /\ \E k \in DOMAIN raw_engineon :
              /\ k[2] = d
              /\ \E o \in ops[d].raw_ops : o.plate = k[1]
              /\ \A o \in ops[d].raw_ops : o._id # k

\* seconds between the readings that end intervals k - 1 and k
SecondsBetween(k) == seg.dfv[k].datetime.num - seg.dfv[k - 1].datetime.num

\* a reading that is not an interval lies between intervals k - 1 and k
GapBetween(k) == seg.dfv[k].row > seg.dfv[k - 1].row + 1

\* C21: once the intervals of a vehicle are segmented, two consecutive
\* intervals with numeric coordinates at most max_distance apart have the
\* same event id, whatever the time between them and whatever readings
\* (engine off, moving, another place) lie between them; intervals more
\* than max_distance apart never share an event.
C21_EventByDistanceOnly ==
    seg.stage \in {"segmented", "done"} =>
        \A k \in DOMAIN seg.dfv :
            (k > 1 /\ ~CoordNaN(k) /\ ~CoordNaN(k - 1)) =>
                (seg.event_id[k] = seg.event_id[k - 1]) =
                    (CoordGap(k) <= seg.max_distance)

\* C21 witness: two consecutive intervals more than an hour apart, with a
\* reading that is not an interval between them, 200 m from each other
\* with max_distance 200, in the same event.
C21_LongGapSameEvent ==
    /\ seg.stage = "done"
    /\ \E k \in DOMAIN seg.dfv :
          /\ k > 1
          /\ GapBetween(k)
          /\ SecondsBetween(k) > 3600
          /\ CoordGap(k) = 200
          /\ seg.max_distance = 200
          /\ seg.event_id[k] = seg.event_id[k - 1]

Terminal(j) == etl_jobs[j].status \in {"success", "failed"}

\* the run of the running job has met an exception
RunRaised == exc # "" \/ \E d \in Dates : fut[d] = "raised"

\* C22: a job record is inserted with status "running" while its run has
\* not started; a running record turns "success" only when every date of
\* the range has returned and nothing was raised, and "failed" with the
\* text of the exception only when the run raised; a record with a
\* terminal status is never written again; and every record that exists
\* eventually has a terminal status.
C22_JobStatus ==
    /\ [][\A j \in 1..MaxJobs :
            (j \notin DOMAIN etl_jobs /\ j \in DOMAIN etl_jobs') =>
                /\ etl_jobs'[j].status = "running"
                /\ etl_jobs'[j].error = NONE
                /\ pc' = "task"
                /\ \A d \in Dates : starts'[d] = 0]_vars
    /\ [][\A j \in DOMAIN etl_jobs :
            IF Terminal(j) THEN etl_jobs'[j] = etl_jobs[j]
            ELSE /\ etl_jobs'[j].status \in {"running", "success", "failed"}
                 /\ etl_jobs'[j].status = "success" =>
                       /\ ~RunRaised
                       /\ date_list = date_list_of(payload.start_date,
                                                   payload.end_date)
                       /\ \A i \in DOMAIN date_list : fut[date_list[i]] = "done"
                       /\ etl_jobs'[j].error = NONE
                 /\ etl_jobs'[j].status = "failed" =>
                       /\ RunRaised
                       /\ exc # ""
                       /\ etl_jobs'[j].error = exc]_vars
    /\ \A j \in 1..MaxJobs :
          (j \in DOMAIN etl_jobs) ~> (j \in DOMAIN etl_jobs /\ Terminal(j))

\* C22 witness: a first job that failed with its error text and a second
\* job that processed a range of at least one date and succeeded.
C22_FailedThenSuccess ==
    /\ Len(etl_jobs) = 2
    /\ etl_jobs[1].status = "failed" /\ etl_jobs[1].error \notin {NONE, ""}
    /\ etl_jobs[2].status = "success" /\ etl_jobs[2].error = NONE
    /\ date_list # <<>>

====
